---- MODULE Spec2Model ----
(***************************************************************************)
(* A model of the YouTube scraper web application.                         *)
(*                                                                         *)
(*   src/app.py              the Flask routes, the shared scraping_results *)
(*                           dictionary and the two background workers     *)
(*   src/youtube_scraper.py  YouTubeScraper: selector fallback extraction, *)
(*                           count parsing, persistence, close             *)
(*                                                                         *)
(* Python values: None is the empty tuple <<>> and a present value v is    *)
(* <<v>> (Some(v)); a str is a tuple of one-character strings wherever its *)
(* characters are inspected, and a TLA+ string where it is only passed on. *)
(***************************************************************************)
EXTENDS Integers, Sequences, FiniteSets, Bags, TLC

VARIABLES
    scraping_results,   \* app.py:14 the global dict: channels, video, status, error
    workers,            \* the running background threads: a bag of thread states
                        \* (position and locals); threads have no identity
    started,            \* the number of background threads started so far
    open_sessions,      \* the number of browser sessions opened and not closed
    resetPc,            \* position of the GET /reset handler being served
    response,           \* the last HTTP response returned: its 'status' key, or
                        \* "scraping_results" for the body of GET /status
    arg,                \* a scraper function's argument (text or loaded page)
    call,               \* the scraper function applied to it, "none" before
    ret,                \* what the call returned
    database,           \* the committed rows of channels, videos and comments
    connection,         \* the tables as the scraper's db_connection sees them:
                        \* the committed rows and its uncommitted statements
    calls,              \* the number of persistence calls made on the connection
    failed_saves        \* the save_video_data calls that returned False

appVars == <<scraping_results, workers, started, open_sessions, resetPc, response>>

\* the scraper's functions of a text or of a loaded page take no part in the
\* application's interleavings and are exercised on their own (SpecParse,
\* SpecExtract)
callVars == <<arg, call, ret>>

\* the persistence functions act on one connection and are exercised on their
\* own as well (SpecDb)
dbVars == <<database, connection, calls, failed_saves>>

vars == <<appVars, callVars, dbVars>>

(***************************************************************************)
(* Bounds of the model.                                                    *)
(***************************************************************************)
\* background threads started in one run of the server
MaxWorkers == 2

\* tokens a text handed to the count parsers is made of
MaxTokens == 5

\* elements one selector finds on a page
MaxElements == 2

None == <<>>
Some(v) == <<v>>

(***************************************************************************)
(* app.py: the shared state.                                               *)
(***************************************************************************)
InitialResults ==
    [channels |-> <<>>, video |-> None, status |-> "idle", error |-> None]

\* the statuses from which a start request may start a worker (app.py:86, 102)
StartableStatuses == {"idle", "channels_complete", "video_complete", "error"}

ScrapingStatuses == {"scraping_channels", "scraping_video"}

\* the channels dict of scrape_channels, in insertion order (app.py:31-35)
ChannelNames == <<"iNeuron", "Krish Naik", "College Wallah">>

ChannelUrls ==
    <<"https://www.youtube.com/@iNeuroniNtelligence",
      "https://www.youtube.com/@krishnaik06",
      "https://www.youtube.com/@CollegeWallahbyPW">>

(***************************************************************************)
(* Text.  A str is a tuple of one-character strings.                       *)
(***************************************************************************)
Digits == {"0", "1", "2", "3", "4", "5", "6", "7", "8", "9"}

DigitValue(c) ==
    CASE c = "0" -> 0 [] c = "1" -> 1 [] c = "2" -> 2 [] c = "3" -> 3
      [] c = "4" -> 4 [] c = "5" -> 5 [] c = "6" -> 6 [] c = "7" -> 7
      [] c = "8" -> 8 [] c = "9" -> 9

Whitespace == {" ", "\t", "\n"}

\* str.lower(), on the letters the model's texts hold
Lower(c) ==
    CASE c = "K" -> "k" [] c = "M" -> "m" [] c = "L" -> "l" [] OTHER -> c

LowerText(t) == [i \in 1..Len(t) |-> Lower(t[i])]

\* str.strip(): leading and trailing whitespace removed
RECURSIVE Strip(_)
Strip(t) ==
    IF t = <<>> THEN <<>>
    ELSE IF Head(t) \in Whitespace THEN Strip(Tail(t))
    ELSE IF t[Len(t)] \in Whitespace THEN Strip(SubSeq(t, 1, Len(t) - 1))
    ELSE t

\* str.replace(c, ''): every occurrence of the character removed
Without(t, c) == SelectSeq(t, LAMBDA x : x # c)

\* needle in t
Contains(t, needle) ==
    \E i \in 1..(Len(t) - Len(needle) + 1) :
        SubSeq(t, i, i + Len(needle) - 1) = needle

\* the value of a (possibly empty) run of decimal digits
RECURSIVE DigitsValue(_)
DigitsValue(ds) ==
    IF ds = <<>> THEN 0
    ELSE 10 * DigitsValue(SubSeq(ds, 1, Len(ds) - 1)) + DigitValue(ds[Len(ds)])

\* the length of the longest run of characters of set cs that starts at t[i]
RECURSIVE Run(_, _, _)
Run(t, i, cs) ==
    IF i <= Len(t) /\ t[i] \in cs THEN 1 + Run(t, i + 1, cs) ELSE 0

(***************************************************************************)
(* youtube_scraper.py: parse_video_count / parse_likes_count.              *)
(***************************************************************************)
\* re.findall(r'\d+[,.]?\d*[KkMm]?', text)[0]: the leftmost match, or None.
\* Every part after \d+ is optional and greedy, so the match starts at the
\* first digit and takes in turn the digit run, one separator, the digit run
\* after it and one suffix letter, each where present (:139, :265)
FirstNumber(t) ==
    IF \A i \in 1..Len(t) : t[i] \notin Digits THEN None
    ELSE LET b  == CHOOSE i \in 1..Len(t) :
                     t[i] \in Digits /\ \A j \in 1..(i - 1) : t[j] \notin Digits
             e1 == b + Run(t, b, Digits)
             e2 == IF e1 <= Len(t) /\ t[e1] \in {",", "."} THEN e1 + 1 ELSE e1
             e3 == e2 + Run(t, e2, Digits)
             e4 == IF e3 <= Len(t) /\ t[e3] \in {"K", "k", "M", "m"}
                   THEN e3 + 1 ELSE e3
         IN Some(SubSeq(t, b, e4 - 1))

\* int(s): the digits' value; a ValueError (None) for anything but digits (:148)
IntOf(s) ==
    IF s # <<>> /\ \A i \in 1..Len(s) : s[i] \in Digits
    THEN Some(DigitsValue(s)) ELSE None

RECURSIVE Pow10(_)
Pow10(n) == IF n = 0 THEN 1 ELSE 10 * Pow10(n - 1)

\* int(float(s) * 10^n) for s = digits [ '.' digits ]: the decimal point moves
\* n places to the right and the fraction left over is cut off.  The model's
\* texts keep to fractions for which the double arithmetic gives this result
ScaledInt(s, n) ==
    LET p    == Run(s, 1, Digits)
        frac == IF p < Len(s) THEN SubSeq(s, p + 2, Len(s)) ELSE <<>>
        kept == SubSeq(frac, 1, IF Len(frac) < n THEN Len(frac) ELSE n)
    IN DigitsValue(SubSeq(s, 1, p)) * Pow10(n)
         + DigitsValue(kept) * Pow10(n - Len(kept))

\* :137-152 and :261-278 (the two functions have the same body)
ParseCount(text) ==
    LET numbers == FirstNumber(text)
    IN IF numbers = None THEN 0
       ELSE LET count_text == LowerText(Without(numbers[1], ","))
            IN IF Contains(count_text, <<"k">>)
               THEN ScaledInt(Without(count_text, "k"), 3)
               ELSE IF Contains(count_text, <<"m">>)
               THEN ScaledInt(Without(count_text, "m"), 6)
               ELSE IF IntOf(count_text) = None THEN 0
               ELSE IntOf(count_text)[1]

ParseVideoCount(count_text) == ParseCount(count_text)

ParseLikesCount(likes_text) == ParseCount(likes_text)

(***************************************************************************)
(* youtube_scraper.py: extraction from the loaded video page.  A page is   *)
(* what the browser answers: per selector of each function, in the order   *)
(* of the function's selector list, None when the lookup (or reading the   *)
(* element) raises, otherwise what was found.                              *)
(***************************************************************************)
\* the selector lists of _get_video_title (:188-194), _get_video_details
\* (:212-217), _get_video_likes (:239-245) and get_video_comments (:293-300)
TitleSelectors ==
    <<"h1 yt-formatted-string", "h1.title", "h1",
      "ytd-video-primary-info-renderer h1", "#title h1">>

DetailsSelectors ==
    <<"#description", "ytd-video-description-renderer", "#content",
      ".video-description">>

LikesSelectors ==
    <<"ytd-toggle-button-renderer yt-formatted-string",
      "#text.ytd-toggle-button-renderer", "span.yt-core-attributed-string",
      "button[aria-label*='like']", "div#top-level-buttons yt-formatted-string">>

CommentSelectors ==
    <<"ytd-comment-thread-renderer", "#content-text",
      "yt-formatted-string#content-text", "div#content-text",
      "ytd-comment-renderer", "#content-text.style-scope.ytd-comment-renderer">>

UnknownTitle == <<"U", "n", "k", "n", "o", "w", "n", " ", "T", "i", "t", "l", "e">>

NoDescription == <<"N", "o", " ", "d", "e", "s", "c", "r", "i", "p", "t", "i",
        "o", "n", " ", "a", "v", "a", "i", "l", "a", "b", "l", "e">>

UnknownUser == <<"U", "n", "k", "n", "o", "w", "n", " ", "U", "s", "e", "r">>

\* the placeholder list of get_video_comments (:343-346)
PlaceholderComments ==
    <<[person_name |-> <<"T", "e", "s", "t", " ", "U", "s", "e", "r">>,
       comment |-> <<"C", "o", "m", "m", "e", "n", "t", "s", " ", "c", "o",
           "u", "l", "d", " ", "n", "o", "t", " ", "b", "e", " ", "l", "o",
           "a", "d", "e", "d", " ", "a", "u", "t", "o", "m", "a", "t", "i",
           "c", "a", "l", "l", "y">>],
      [person_name |-> <<"S", "y", "s", "t", "e", "m">>,
       comment |-> <<"T", "r", "y", " ", "m", "a", "n", "u", "a", "l", " ",
           "i", "n", "s", "p", "e", "c", "t", "i", "o", "n", " ", "o", "r",
           " ", "c", "h", "e", "c", "k", " ", "Y", "o", "u", "T", "u", "b",
           "e", " ", "r", "e", "s", "t", "r", "i", "c", "t", "i", "o", "n",
           "s">>]>>

\* FirstText without the test of :199 / :222: the first element found wins
RECURSIVE FirstTextFound(_, _, _)
FirstTextFound(found, i, default) ==
    IF i > Len(found) THEN default
    ELSE IF found[i] # None THEN Strip(found[i][1])
    ELSE FirstTextFound(found, i + 1, default)

\* the for loops of _get_video_title (:196-204) and _get_video_details
\* (:219-227) from selector i on: the stripped text of the first selector whose
\* element is found with text that is not blank, else the default
RECURSIVE FirstText(_, _, _)
FirstText(found, i, default) ==
    IF i > Len(found) THEN default
    ELSE IF found[i] # None /\ Strip(found[i][1]) # <<>> THEN Strip(found[i][1])
    ELSE FirstText(found, i + 1, default)

\* _get_video_title (:184-206)
GetVideoTitle(page) == FirstText(page.title, 1, UnknownTitle)

\* _get_video_details (:208-229)
GetVideoDetails(page) == FirstText(page.details, 1, NoDescription)

\* :251   text = element.get_attribute("aria-label") or element.text
LikeText(element) ==
    IF element.aria # None /\ element.aria[1] # <<>>
    THEN element.aria[1] ELSE element.text

\* the loops of _get_video_likes (:247-257) from element j of selector i on;
\* an element that raises ends its selector (:254-255)
RECURSIVE LikesFrom(_, _, _)
LikesFrom(found, i, j) ==
    IF i > Len(found) THEN 0
    ELSE IF found[i] = None \/ j > Len(found[i][1]) THEN LikesFrom(found, i + 1, 1)
    ELSE LET element == found[i][1][j]
         IN IF element = None THEN LikesFrom(found, i + 1, 1)
            ELSE IF /\ LikeText(element[1]) # <<>>
                    /\ Contains(LowerText(LikeText(element[1])), <<"l", "i", "k", "e">>)
            THEN ParseLikesCount(LikeText(element[1]))
            ELSE LikesFrom(found, i, j + 1)

\* _get_video_likes (:231-259): 0 when the scroll raises (:258-259)
GetVideoLikes(page) ==
    IF ~page.likes_scroll THEN 0 ELSE LikesFrom(page.likes, 1, 1)

\* get_video_comments' max_comments (:280)
MaxComments == 5

\* the comments one selector's elements give (:308-329), from element j on,
\* added to comments; an element that raises is skipped (:327-329)
RECURSIVE CommentsOf(_, _, _)
CommentsOf(elements, j, comments) ==
    IF j > Len(elements) \/ Len(comments) >= MaxComments THEN comments
    ELSE LET element == elements[j]
         IN IF element = None \/ Len(Strip(element[1].text)) <= 10
            THEN CommentsOf(elements, j + 1, comments)
            ELSE CommentsOf(elements, j + 1,
                   Append(comments,
                     [person_name |-> IF element[1].author = None THEN UnknownUser
                                      ELSE Strip(element[1].author[1]),
                      comment |-> Strip(element[1].text)]))

\* the loop over the selectors (:302-336) from selector i on: the first
\* selector that gives a comment ends it (:331-332)
RECURSIVE CommentsFrom(_, _)
CommentsFrom(found, i) ==
    IF i > Len(found) THEN <<>>
    ELSE IF found[i] = None THEN CommentsFrom(found, i + 1)
    ELSE LET first    == SubSeq(found[i][1], 1,
                                IF Len(found[i][1]) < MaxComments
                                THEN Len(found[i][1]) ELSE MaxComments)
             comments == CommentsOf(first, 1, <<>>)
         IN IF comments # <<>> THEN comments ELSE CommentsFrom(found, i + 1)

\* get_video_comments without the placeholders of :342-346
CommentsNoPlaceholder(page) ==
    IF ~page.comments_scroll THEN <<>> ELSE CommentsFrom(page.comments, 1)

\* get_video_comments (:280-348): no comment when the scroll raises (:338-339),
\* and the placeholders when there is none (:342-346)
GetVideoComments(page) ==
    LET comments == IF ~page.comments_scroll THEN <<>>
                    ELSE CommentsFrom(page.comments, 1)
    IN IF comments = <<>> THEN PlaceholderComments ELSE comments

\* get_video_data (:154-182): None when the page load raises
GetVideoData(page) ==
    IF ~page.load THEN None
    ELSE Some([title    |-> GetVideoTitle(page),
               details  |-> GetVideoDetails(page),
               likes    |-> GetVideoLikes(page),
               comments |-> GetVideoComments(page)])

\* a page that loads and on which every lookup raises
BlankPage ==
    [load |-> TRUE,
     title    |-> [i \in 1..Len(TitleSelectors) |-> None],
     details  |-> [i \in 1..Len(DetailsSelectors) |-> None],
     likes_scroll |-> TRUE,
     likes    |-> [i \in 1..Len(LikesSelectors) |-> None],
     comments_scroll |-> TRUE,
     comments |-> [i \in 1..Len(CommentSelectors) |-> None]]

\* driver.get(video_url) raises (:158)
LoadFailPage == [BlankPage EXCEPT !.load = FALSE]

(***************************************************************************)
(* youtube_scraper.py as the workers see it.  The browser and the database *)
(* are the environment: each call into them returns one of the outcomes    *)
(* its code can produce.                                                   *)
(***************************************************************************)
\* YouTubeScraper(): setup_driver raises when both attempts fail (:53-71);
\* setup_database never raises and leaves db_connection None on failure (:83-87)
ConstructOutcomes == {"raise", "db", "nodb"}

\* _find_video_count's default when no count is found on the page (:133)
DefaultVideoCount == 100

\* process_channel(name, url): the dict it returns (:448-458).  The page shows
\* no count, so video_count is the default; channel_id is the row id, or
\* hash(channel_name) without a connection (:405-408)
ProcessChannel(db, i) ==
    [name |-> ChannelNames[i], url |-> ChannelUrls[i],
     video_count |-> DefaultVideoCount,
     channel_id |-> IF db = "db" THEN Some(i) ELSE Some(-i)]

\* the entry scrape_channels appends when process_channel raised (app.py:45-50)
ErrorEntry(i, e) ==
    [name |-> ChannelNames[i], url |-> ChannelUrls[i], video_count |-> 0, error |-> e]

NumChannels == Len(ChannelNames)

\* ChannelLoop with the try of app.py:39-50 around the loop instead of inside
\* it: the first process_channel that raises ends the loop
RECURSIVE ChannelLoopStops(_, _)
ChannelLoopStops(db, results) ==
    IF Len(results) = NumChannels
    THEN {results}
    ELSE LET i == Len(results) + 1
         IN ChannelLoopStops(db, Append(results, ProcessChannel(db, i)))
              \cup {Append(results, ErrorEntry(i, "process_channel raised"))}

\* app.py:37-50   the for loop over the configured channels: per channel,
\* process_channel's dict, or, when an Exception escapes process_channel (its
\* own handlers cover the browser and database calls, so e.g. a MemoryError),
\* the error entry; the loop goes on to the next channel either way
RECURSIVE ChannelLoop(_, _)
ChannelLoop(db, results) ==
    IF Len(results) = NumChannels
    THEN {results}
    ELSE LET i == Len(results) + 1
         IN UNION { ChannelLoop(db, Append(results, entry)) :
                      entry \in {ProcessChannel(db, i),
                                 ErrorEntry(i, "process_channel raised")} }

\* the video pages the workers meet: one that fails to load and one that loads
AppPages == {LoadFailPage, BlankPage}

\* get_video_data(video_url) as scrape_video sees it
VideoDataOutcomes == {GetVideoData(page) : page \in AppPages}

\* process_video(video_url) on a page (youtube_scraper.py:460-489): the value
\* returned, or "raise" when the SELECT of :472-475, outside every handler,
\* raises; that needs extracted data (:464) and a database connection (:470)
ProcessVideo(db, page) ==
    LET video_data == GetVideoData(page)
    IN {[raised |-> FALSE, value |-> video_data]}
         \cup (IF video_data # None /\ db = "db"
               THEN {[raised |-> TRUE, value |-> None]} ELSE {})

\* process_video(video_url) as scrape_video sees it
ProcessVideoOutcomes(db) == UNION {ProcessVideo(db, page) : page \in AppPages}

\* YouTubeScraper.close (youtube_scraper.py:491-499): driver.quit() and
\* db_connection.close() return or raise
CloseOutcomes == {"closed", "raise"}

(***************************************************************************)
(* app.py: the background workers.  A step is one statement that reads or  *)
(* writes scraping_results; the statements after it that touch only the    *)
(* thread's locals and the environment (the constructor, the scraping      *)
(* calls, close) run with it.  A thread's state: kind, pc, its locals      *)
(* results / video_data / e (exc), and session, whether its scraper holds  *)
(* an open browser session.  A thread that ends leaves the bag.            *)
(***************************************************************************)
NewWorker(kind) ==
    [kind |-> kind, pc |-> "set_status", session |-> "none",
     results |-> <<>>, video_data |-> None, exc |-> None]

Threads == BagToSet(workers)

\* thread w moves on to state w2
Step(w, w2) == workers' = (workers (-) SetToBag({w})) (+) SetToBag({w2})

\* thread w ends
End(w) == workers' = workers (-) SetToBag({w})

ScrapingStatus(kind) ==
    IF kind = "channels" THEN "scraping_channels" ELSE "scraping_video"

CompleteStatus(kind) ==
    IF kind = "channels" THEN "channels_complete" ELSE "video_complete"

\* app.py:24 / :64   scraping_results['status'] = 'scraping_...'
SetStatus(w) ==
    /\ w.pc = "set_status"
    /\ scraping_results' =
         [scraping_results EXCEPT !.status = ScrapingStatus(w.kind)]
    /\ Step(w, [w EXCEPT !.pc = "clear_error"])
    /\ UNCHANGED <<started, open_sessions, resetPc, response>>

\* the except clause is entered with e raised (app.py:56 / :75)
Raise(w, session, e) ==
    [w EXCEPT !.pc = "exc_status", !.session = session, !.exc = Some(e),
              !.results = <<>>, !.video_data = None]

\* app.py:28-50   scraper = YouTubeScraper(); the for loop
RunChannels(w) ==
    \E db \in ConstructOutcomes :
      IF db = "raise"
      THEN /\ Step(w, Raise(w, "none", "WebDriver could not be started"))
           /\ UNCHANGED open_sessions
      ELSE /\ \E results \in ChannelLoop(db, <<>>) :
                Step(w, [w EXCEPT !.pc = "store", !.session = "open",
                                  !.results = results])
           /\ open_sessions' = open_sessions + 1

\* app.py:68-69   scraper = YouTubeScraper(); scraper.process_video(video_url)
RunVideo(w) ==
    \E db \in ConstructOutcomes :
      IF db = "raise"
      THEN /\ Step(w, Raise(w, "none", "WebDriver could not be started"))
           /\ UNCHANGED open_sessions
      ELSE /\ \E o \in ProcessVideoOutcomes(db) :
                Step(w, IF o.raised
                        THEN Raise(w, "open", "database SELECT failed")
                        ELSE [w EXCEPT !.pc = "store", !.session = "open",
                                       !.video_data = o.value])
           /\ open_sessions' = open_sessions + 1

\* app.py:25 / :65   scraping_results['error'] = None, then the try block up
\* to its first write of scraping_results
ClearError(w) ==
    /\ w.pc = "clear_error"
    /\ scraping_results' = [scraping_results EXCEPT !.error = None]
    /\ IF w.kind = "channels" THEN RunChannels(w) ELSE RunVideo(w)
    /\ UNCHANGED <<started, resetPc, response>>

\* StoreResults that keeps the last video when process_video returned None
StoreResultsKeepsVideo(w) ==
    /\ w.pc = "store"
    /\ scraping_results' =
         IF w.kind = "channels"
         THEN [scraping_results EXCEPT !.channels = w.results]
         ELSE IF w.video_data = None THEN scraping_results
         ELSE [scraping_results EXCEPT !.video = w.video_data]
    /\ Step(w, [w EXCEPT !.pc = "complete", !.results = <<>>, !.video_data = None])
    /\ UNCHANGED <<started, open_sessions, resetPc, response>>

\* app.py:52   scraping_results['channels'] = results
\* app.py:71   scraping_results['video'] = video_data
StoreResults(w) ==
    /\ w.pc = "store"
    /\ scraping_results' =
         IF w.kind = "channels"
         THEN [scraping_results EXCEPT !.channels = w.results]
         ELSE [scraping_results EXCEPT !.video = w.video_data]
    /\ Step(w, [w EXCEPT !.pc = "complete", !.results = <<>>, !.video_data = None])
    /\ UNCHANGED <<started, open_sessions, resetPc, response>>

\* app.py:53-54 / :72-73   scraping_results['status'] = '..._complete', then
\* scraper.close(): the thread ends, or the except clause is entered
Complete(w) ==
    /\ w.pc = "complete"
    /\ scraping_results' =
         [scraping_results EXCEPT !.status = CompleteStatus(w.kind)]
    /\ \E o \in CloseOutcomes :
         IF o = "raise"
         THEN Step(w, Raise(w, "closed", "close failed"))
         ELSE End(w)
    /\ open_sessions' = open_sessions - 1
    /\ UNCHANGED <<started, resetPc, response>>

\* ExceptStatus without the write of app.py:57 / :76
ExceptStatusSkipped(w) ==
    /\ w.pc = "exc_status"
    /\ Step(w, [w EXCEPT !.pc = "exc_error"])
    /\ UNCHANGED <<scraping_results, started, open_sessions, resetPc, response>>

\* app.py:57 / :76   scraping_results['status'] = 'error'
ExceptStatus(w) ==
    /\ w.pc = "exc_status"
    /\ scraping_results' = [scraping_results EXCEPT !.status = "error"]
    /\ Step(w, [w EXCEPT !.pc = "exc_error"])
    /\ UNCHANGED <<started, open_sessions, resetPc, response>>

\* app.py:58 / :77   scraping_results['error'] = str(e); the thread ends
ExceptError(w) ==
    /\ w.pc = "exc_error"
    /\ scraping_results' = [scraping_results EXCEPT !.error = w.exc]
    /\ End(w)
    /\ UNCHANGED <<started, open_sessions, resetPc, response>>

(***************************************************************************)
(* app.py: the routes.  The server is threaded: a handler runs concurrently *)
(* with the workers and with other handlers.                               *)
(***************************************************************************)
\* MayStart with 'scraping_video' taken for a status to start from
MayStartDuringVideo(status) == status # "scraping_channels"

\* app.py:86 / :102   the guard of the two start routes
MayStart(status) == status \in StartableStatuses

\* the form field of POST /scrape_video (app.py:98)
VideoUrls == {"", "https://www.youtube.com/watch?v=x"}

\* app.py:90-92 / :106-108   threading.Thread(target=...).start()
StartThread(kind) ==
    /\ started < MaxWorkers
    /\ started' = started + 1
    /\ workers' = workers (+) SetToBag({NewWorker(kind)})

\* app.py:84-94   POST /scrape_channels
StartChannelScraping ==
    /\ IF ~MayStart(scraping_results.status)
       THEN /\ response' = "busy"
            /\ UNCHANGED <<workers, started>>
       ELSE /\ StartThread("channels")
            /\ response' = "started"
    /\ UNCHANGED <<scraping_results, open_sessions, resetPc>>

\* app.py:96-110   POST /scrape_video
StartVideoScraping(video_url) ==
    /\ IF video_url = ""
       THEN /\ response' = "error"
            /\ UNCHANGED <<workers, started>>
       ELSE IF ~MayStart(scraping_results.status)
       THEN /\ response' = "busy"
            /\ UNCHANGED <<workers, started>>
       ELSE /\ StartThread("video")
            /\ response' = "started"
    /\ UNCHANGED <<scraping_results, open_sessions, resetPc>>

\* app.py:112-114   GET /status: reads scraping_results and writes nothing;
\* the response is the dict as it is at that moment
GetStatus ==
    /\ response' = "scraping_results"
    /\ UNCHANGED <<scraping_results, workers, started, open_sessions, resetPc>>

\* ResetAssign that leaves 'error' as it was
ResetAssignKeepsError ==
    /\ resetPc = "idle"
    /\ scraping_results' = [InitialResults EXCEPT !.error = scraping_results.error]
    /\ resetPc' = "assigned"
    /\ UNCHANGED <<workers, started, open_sessions, response>>

\* ResetAssign that also stops the running workers
ResetAssignCancels ==
    /\ resetPc = "idle"
    /\ scraping_results' = InitialResults
    /\ resetPc' = "assigned"
    /\ workers' = EmptyBag
    /\ UNCHANGED <<started, open_sessions, response>>

\* app.py:126-131   GET /reset: the global is bound to a fresh dict
ResetAssign ==
    /\ resetPc = "idle"
    /\ scraping_results' = InitialResults
    /\ resetPc' = "assigned"
    /\ UNCHANGED <<workers, started, open_sessions, response>>

\* app.py:132   GET /reset: the response is built and returned
ResetReturn ==
    /\ resetPc = "assigned"
    /\ response' = "reset"
    /\ resetPc' = "idle"
    /\ UNCHANGED <<scraping_results, workers, started, open_sessions>>

AppInit ==
    /\ scraping_results = InitialResults
    /\ workers = EmptyBag
    /\ started = 0
    /\ open_sessions = 0
    /\ resetPc = "idle"
    /\ response = "none"

NoCall ==
    /\ arg = None
    /\ call = "none"
    /\ ret = None

\* database.py:23-57   the three tables as create_database leaves them
EmptyTables == [channels |-> <<>>, videos |-> <<>>, comments |-> <<>>]

\* no persistence call has been made
NoSave ==
    /\ database = EmptyTables
    /\ connection = EmptyTables
    /\ calls = 0
    /\ failed_saves = {}

Init ==
    /\ AppInit
    /\ NoCall
    /\ NoSave

Next ==
    \/ StartChannelScraping /\ UNCHANGED <<callVars, dbVars>>
    \/ \E u \in VideoUrls : StartVideoScraping(u) /\ UNCHANGED <<callVars, dbVars>>
    \/ GetStatus /\ UNCHANGED <<callVars, dbVars>>
    \/ ResetAssign /\ UNCHANGED <<callVars, dbVars>>
    \/ ResetReturn /\ UNCHANGED <<callVars, dbVars>>
    \/ \E w \in Threads : SetStatus(w) /\ UNCHANGED <<callVars, dbVars>>
    \/ \E w \in Threads : ClearError(w) /\ UNCHANGED <<callVars, dbVars>>
    \/ \E w \in Threads : StoreResults(w) /\ UNCHANGED <<callVars, dbVars>>
    \/ \E w \in Threads : Complete(w) /\ UNCHANGED <<callVars, dbVars>>
    \/ \E w \in Threads : ExceptStatus(w) /\ UNCHANGED <<callVars, dbVars>>
    \/ \E w \in Threads : ExceptError(w) /\ UNCHANGED <<callVars, dbVars>>

Spec == Init /\ [][Next]_vars

\* the threads are scheduled: a worker that can take a step eventually does
WorkerNext ==
    \E w \in Threads :
        /\ \/ SetStatus(w)
           \/ ClearError(w)
           \/ StoreResults(w)
           \/ Complete(w)
           \/ ExceptStatus(w)
           \/ ExceptError(w)
        /\ UNCHANGED <<callVars, dbVars>>

SpecFair == Init /\ [][Next]_vars /\ WF_vars(WorkerNext)

(***************************************************************************)
(* C1 - C7: the routes and the workers.                                    *)
(***************************************************************************)
TerminalStatuses == {"channels_complete", "video_complete", "error"}

\* C1: at every moment at most one background scrape worker is running.
C1_AtMostOneWorker == BagCardinality(workers) <= 1

\* a start request with a video_url (or for the channels) is served
StartRequest ==
    \/ StartChannelScraping
    \/ \E u \in VideoUrls \ {""} : StartVideoScraping(u)

\* C2: a start request checked while the status is 'scraping_channels' or
\* 'scraping_video' is answered 'busy', starts no thread and leaves channels,
\* video, status and error as they are.
C2_BusyStartIsRefused ==
    [][(scraping_results.status \in ScrapingStatuses /\ StartRequest)
         => /\ response' = "busy"
            /\ workers' = workers
            /\ started' = started
            /\ scraping_results' = scraping_results]_vars

\* a start request was answered 'busy' while a worker was scraping
C2_Witness ==
    /\ response = "busy"
    /\ scraping_results.status \in ScrapingStatuses
    /\ workers # EmptyBag

\* C3 as stated: when GET /reset returns, the shared state is exactly
\* status 'idle', channels [], video None, error None.
C3_IdleWhenResetReturns ==
    resetPc = "assigned" => scraping_results = InitialResults

\* C3 amended: GET /reset, in any state, sets the shared state to exactly
\* status 'idle', channels [], video None, error None at its assignment, and
\* until it returns only a worker's write changes that.
C3_ResetAssignsInitialState ==
    [][/\ (resetPc = "idle" /\ resetPc' = "assigned")
            => scraping_results' = InitialResults
       /\ (resetPc = "assigned" /\ scraping_results = InitialResults
             /\ workers' = workers)
            => scraping_results' = InitialResults]_vars

\* the reset was served while a worker held results to store and an error was
\* recorded, and it has assigned
C3_Witness ==
    /\ resetPc = "assigned"
    /\ scraping_results = InitialResults
    /\ \E w \in Threads : w.pc = "store"

\* C4: GET /reset stops no worker, and a worker running when it is served goes
\* on to write to the state the reset left, which therefore does not stay
\* idle and empty.
C4_ResetDoesNotCancel ==
    /\ [][(resetPc = "idle" /\ resetPc' = "assigned") => workers' = workers]_vars
    /\ (resetPc = "assigned" /\ scraping_results = InitialResults
          /\ workers # EmptyBag)
         ~> (scraping_results # InitialResults)

\* after a reset the status is 'channels_complete' over the channels the reset
\* emptied: the worker wrote its terminal status to the post-reset state
C4_Witness ==
    /\ response = "reset"
    /\ scraping_results.status = "channels_complete"
    /\ scraping_results.channels = <<>>

\* C5: a worker that was started ('started' was answered) leads to its
\* terminal status ('channels_complete' for a channel job, 'video_complete'
\* for a video job, or 'error'), and the status does not remain
\* 'scraping_channels' or 'scraping_video'.
C5_StartedJobReachesTerminalStatus ==
    /\ \A kind \in {"channels", "video"} :
         (\E w \in Threads : w.kind = kind /\ w.pc \in {"set_status", "clear_error"})
           ~> (scraping_results.status \in {CompleteStatus(kind), "error"})
    /\ (scraping_results.status \in ScrapingStatuses)
         ~> (scraping_results.status \in TerminalStatuses)

\* both a channel job and a video job were started and have ended, the last
\* one with its terminal status
C5_Witness ==
    /\ started = 2
    /\ workers = EmptyBag
    /\ scraping_results.status = "video_complete"
    /\ scraping_results.channels # <<>>

\* C6: a worker that opened a browser session closes it before it ends: when
\* no worker is running, no session is open.
C6_SessionsClosedWhenWorkersEnd ==
    workers = EmptyBag => open_sessions = 0

\* an entry of the channels list for channel i: process_channel's dict, or the
\* error entry with video_count 0
ChannelEntry(entry, i) ==
    /\ entry.name = ChannelNames[i]
    /\ entry.url = ChannelUrls[i]
    /\ \/ DOMAIN entry = {"name", "url", "video_count", "channel_id"}
       \/ /\ DOMAIN entry = {"name", "url", "video_count", "error"}
          /\ entry.video_count = 0

\* one entry per configured channel, in configuration order
OnePerChannel(channels) ==
    /\ Len(channels) = NumChannels
    /\ \A i \in 1..NumChannels : ChannelEntry(channels[i], i)

\* C7 as stated: when the status is 'channels_complete', the channels list
\* holds one entry per configured channel, in configuration order.
C7_CompleteChannelsListed ==
    scraping_results.status = "channels_complete"
        => OnePerChannel(scraping_results.channels)

\* C7 amended: the list a channel job stores holds one entry per configured
\* channel, in configuration order, an error entry (video_count 0) for a
\* channel whose processing raised and entries for the channels after it; when
\* the status is 'channels_complete' the channels list is such a list, or is
\* empty (a GET /reset served after the job stored it).
C7_StoredChannelsListed ==
    /\ \A w \in Threads :
         (w.kind = "channels" /\ w.pc = "store") => OnePerChannel(w.results)
    /\ scraping_results.status = "channels_complete"
         => \/ OnePerChannel(scraping_results.channels)
            \/ scraping_results.channels = <<>>

\* the first channel raised, the second and third were processed all the same
C7_Witness ==
    /\ scraping_results.status = "channels_complete"
    /\ Len(scraping_results.channels) = NumChannels
    /\ "error" \in DOMAIN scraping_results.channels[1]
    /\ "channel_id" \in DOMAIN scraping_results.channels[2]
    /\ "channel_id" \in DOMAIN scraping_results.channels[NumChannels]

(***************************************************************************)
(* C13, C14: what a failed video job leaves in scraping_results.           *)
(***************************************************************************)
\* a video worker to which process_video returned None
LoadFailed(w) == w.kind = "video" /\ w.pc = "store" /\ w.video_data = None

\* C13: a video job whose page load fails is not surfaced as an error:
\* process_video returns None and raises nothing, the job stores video = None,
\* sets status 'video_complete' and leaves error alone, and a job that ran
\* alone ends with status 'video_complete', video None and error None.
C13_FailedLoadEndsVideoComplete ==
    /\ [](\A db \in {"db", "nodb"} :
            ProcessVideo(db, LoadFailPage) = {[raised |-> FALSE, value |-> None]})
    /\ [][\A w \in Threads :
            /\ (LoadFailed(w) /\ w \notin Threads')
                 => /\ scraping_results' = [scraping_results EXCEPT !.video = None]
                    /\ [w EXCEPT !.pc = "complete"] \in Threads'
            /\ (w.kind = "video" /\ w.pc = "complete" /\ w \notin Threads')
                 => scraping_results' =
                      [scraping_results EXCEPT !.status = "video_complete"]
            /\ (w.kind = "video" /\ w.pc = "complete" /\ started = 1
                  /\ scraping_results.video = None /\ workers' = EmptyBag)
                 => /\ scraping_results'.status = "video_complete"
                    /\ scraping_results'.video = None
                    /\ scraping_results'.error = None]_vars

\* two jobs were started with no reset after the second start, the video job
\* that stored last met a page that failed to load, and both have ended
C13_Witness ==
    /\ started = 2
    /\ scraping_results.channels = <<>>
    /\ workers = EmptyBag
    /\ scraping_results.status = "video_complete"
    /\ scraping_results.video = None
    /\ scraping_results.error = None
    /\ response = "started"

\* C14: in every state the error field is non-null exactly when the status is
\* 'error'.
C14_ErrorExactlyWhenStatusError ==
    (scraping_results.error # None) <=> (scraping_results.status = "error")

(***************************************************************************)
(* SpecParse: parse_video_count and parse_likes_count applied to texts.    *)
(***************************************************************************)
\* what the texts are made of: digit groups, the two separators, a suffix of
\* each kind and case, a blank
Tokens ==
    {<<"1">>, <<"2", "3", "4">>, <<",">>, <<".">>, <<"K">>, <<"m">>, <<" ">>}

RECURSIVE TextsOf(_)
TextsOf(n) ==
    IF n = 0 THEN {<<>>}
    ELSE LET shorter == TextsOf(n - 1)
         IN shorter \cup {t \o k : t \in shorter, k \in Tokens}

\* Python's int is unbounded; the model's counts stay below 2^31
Representable(text) ==
    LET numbers == FirstNumber(text)
    IN numbers = None
       \/ LET tok == LowerText(Without(numbers[1], ","))
              n   == Run(tok, 1, Digits)
          IN IF Contains(tok, <<"k">>) THEN n <= 6
             ELSE IF Contains(tok, <<"m">>) THEN n <= 3
             ELSE n <= 9

CountTexts == {t \in TextsOf(MaxTokens) : Representable(t)}

InitParse ==
    /\ AppInit
    /\ arg \in CountTexts
    /\ call = "none"
    /\ ret = None
    /\ NoSave

CallParseVideoCount ==
    /\ call = "none"
    /\ call' = "parse_video_count"
    /\ ret' = Some(ParseVideoCount(arg))
    /\ UNCHANGED <<arg, appVars, dbVars>>

CallParseLikesCount ==
    /\ call = "none"
    /\ call' = "parse_likes_count"
    /\ ret' = Some(ParseLikesCount(arg))
    /\ UNCHANGED <<arg, appVars, dbVars>>

NextParse ==
    \/ CallParseVideoCount
    \/ CallParseLikesCount

SpecParse == InitParse /\ [][NextParse]_vars

(***************************************************************************)
(* SpecExtract: the extraction functions applied to loaded pages.          *)
(***************************************************************************)
\* what a title or description selector finds: nothing (the lookup raises),
\* blank text, text with blanks around it, plain text
TextOutcomes == {None, Some(<<" ">>), Some(<<" ", "a", " ">>), Some(<<"b">>)}

\* what such a selector finds when it yields nothing
BlankOutcomes == {None, Some(<<" ">>)}

RECURSIVE ListsOf(_, _)
ListsOf(S, n) ==
    IF n = 0 THEN {<<>>}
    ELSE LET shorter == ListsOf(S, n - 1)
         IN shorter \cup {Append(l, x) : l \in shorter, x \in S}

\* elements a likes selector finds: one that raises when read, a label and a
\* text with and without a like count
LikeElements ==
    {None,
     Some([aria |-> None, text |-> <<"1", "K", " ", "l", "i", "k", "e", "s">>]),
     Some([aria |-> Some(<<"l", "i", "k", "e", " ", "t", "h", "i", "s", " ",
         "v", "i", "d", "e", "o", " ", "a", "l", "o", "n", "g", " ", "w", "i",
         "t", "h", " ", "2", "3", "4", " ", "o", "t", "h", "e", "r", " ", "p",
         "e", "o", "p", "l", "e">>), text |-> <<>>]),
     Some([aria |-> Some(<<>>), text |-> <<"S", "h", "a", "r", "e">>]),
     Some([aria |-> None, text |-> <<>>])}

\* elements a comment selector finds: one that raises when read, a comment
\* with and without an author, a text of 10 characters, a blank one
CommentElements ==
    {None,
     Some([text |-> <<" ", "a", " ", "f", "i", "n", "e", " ", "c", "o", "m",
         "m", "e", "n", "t", " ">>, author |-> Some(<<" ", "@", "b", "o", "b",
         " ">>)]),
     Some([text |-> <<"a", "n", "o", "t", "h", "e", "r", " ", "o", "n", "e",
         ".">>, author |-> None]),
     Some([text |-> <<"t", "e", "n", " ", "c", "h", "a", "r", "s", ".">>,
         author |-> Some(<<"@", "a", "l">>)]),
     Some([text |-> <<" ">>, author |-> None])}

\* one selector with elements, the others all raising or all finding none
OneLive(n, elementLists) ==
    { [i \in 1..n |-> IF i = live THEN Some(l) ELSE other] :
        live \in 1..n, l \in elementLists, other \in {None, Some(<<>>)} }

TitlePages ==
    { [BlankPage EXCEPT !.title = f] :
        f \in [1..Len(TitleSelectors) -> TextOutcomes] }

DetailsPages ==
    { [BlankPage EXCEPT !.details = f] :
        f \in [1..Len(DetailsSelectors) -> TextOutcomes] }

LikesPages ==
    { [BlankPage EXCEPT !.likes = f, !.likes_scroll = scroll] :
        f \in OneLive(Len(LikesSelectors), ListsOf(LikeElements, MaxElements)),
        scroll \in BOOLEAN }

CommentsPages ==
    { [BlankPage EXCEPT !.comments = f, !.comments_scroll = scroll] :
        f \in OneLive(Len(CommentSelectors), ListsOf(CommentElements, MaxElements)),
        scroll \in BOOLEAN }

\* the ways a likes or comments lookup yields nothing: the scroll raises; every
\* selector raises; every selector finds no element; the elements found hold
\* no like count / no comment long enough
FailingLikes ==
    {[scroll |-> FALSE, found |-> BlankPage.likes],
     [scroll |-> TRUE, found |-> BlankPage.likes],
     [scroll |-> TRUE, found |-> [i \in 1..Len(LikesSelectors) |-> Some(<<>>)]],
     [scroll |-> TRUE,
      found |-> [i \in 1..Len(LikesSelectors) |->
                   Some(<<Some([aria |-> Some(<<>>), text |-> <<"S", "h", "a", "r", "e">>]),
                          Some([aria |-> None, text |-> <<>>])>>)]]}

FailingComments ==
    {[scroll |-> FALSE, found |-> BlankPage.comments],
     [scroll |-> TRUE, found |-> BlankPage.comments],
     [scroll |-> TRUE, found |-> [i \in 1..Len(CommentSelectors) |-> Some(<<>>)]],
     [scroll |-> TRUE,
      found |-> [i \in 1..Len(CommentSelectors) |->
                   Some(<<Some([text |-> <<"t", "e", "n", " ", "c", "h", "a",
                       "r", "s", ".">>, author |-> Some(<<"@", "a", "l">>)]),
                          None>>)]]}

\* pages that load and on which every extraction step fails
FailingPages ==
    { [load |-> TRUE, title |-> t, details |-> d,
       likes_scroll |-> l.scroll, likes |-> l.found,
       comments_scroll |-> c.scroll, comments |-> c.found] :
        t \in [1..Len(TitleSelectors) -> BlankOutcomes],
        d \in [1..Len(DetailsSelectors) -> BlankOutcomes],
        l \in FailingLikes, c \in FailingComments }

Pages ==
    {LoadFailPage} \cup TitlePages \cup DetailsPages \cup LikesPages
      \cup CommentsPages \cup FailingPages

InitExtract ==
    /\ AppInit
    /\ arg \in Pages
    /\ call = "none"
    /\ ret = None
    /\ NoSave

\* one of the scraper's functions is applied to the loaded page
Apply(name, value) ==
    /\ call = "none"
    /\ call' = name
    /\ ret' = value
    /\ UNCHANGED <<arg, appVars, dbVars>>

CallGetVideoTitle == Apply("_get_video_title", Some(GetVideoTitle(arg)))

CallGetVideoDetails == Apply("_get_video_details", Some(GetVideoDetails(arg)))

CallGetVideoLikes == Apply("_get_video_likes", Some(GetVideoLikes(arg)))

CallGetVideoComments == Apply("get_video_comments", Some(GetVideoComments(arg)))

CallGetVideoData == Apply("get_video_data", GetVideoData(arg))

NextExtract ==
    \/ CallGetVideoTitle
    \/ CallGetVideoDetails
    \/ CallGetVideoLikes
    \/ CallGetVideoComments
    \/ CallGetVideoData

SpecExtract == InitExtract /\ [][NextExtract]_vars

(***************************************************************************)
(* C8, C9: selector fallback and the sentinels.                            *)
(***************************************************************************)
NonBlank(t) == \E i \in 1..Len(t) : t[i] \notin Whitespace

\* t from its first to its last character that is not whitespace
Trimmed(t) ==
    LET first == CHOOSE i \in 1..Len(t) :
                   t[i] \notin Whitespace /\ \A j \in 1..(i - 1) : t[j] \in Whitespace
        last  == CHOOSE i \in 1..Len(t) :
                   t[i] \notin Whitespace /\ \A j \in (i + 1)..Len(t) : t[j] \in Whitespace
    IN SubSeq(t, first, last)

\* selector i finds an element whose text is not blank
Qualifies(found, i) == found[i] # None /\ NonBlank(found[i][1])

\* the text of the first selector, in list order, that qualifies, trimmed; the
\* default when none does
FirstQualifying(found, default) ==
    IF \A i \in 1..Len(found) : ~Qualifies(found, i) THEN default
    ELSE LET i == CHOOSE k \in 1..Len(found) :
                    Qualifies(found, k) /\ \A j \in 1..(k - 1) : ~Qualifies(found, j)
         IN Trimmed(found[i][1])

\* C9: _get_video_title and _get_video_details return the stripped text of the
\* first selector, in list order, whose element is found with text that is not
\* blank (selectors that raise or yield blank text are skipped, selectors after
\* it do not matter), and the default when no selector qualifies.
C9_FirstQualifyingSelectorWins ==
    /\ call = "_get_video_title" =>
         ret = Some(FirstQualifying(arg.title, UnknownTitle))
    /\ call = "_get_video_details" =>
         ret = Some(FirstQualifying(arg.details, NoDescription))

\* the first title selector raises, the second yields blank text, the third
\* yields " a ", which is returned stripped although the fourth yields "b"
C9_Witness ==
    /\ call = "_get_video_title"
    /\ arg.title[1] = None
    /\ arg.title[2] = Some(<<" ">>)
    /\ arg.title[3] = Some(<<" ", "a", " ">>)
    /\ arg.title[4] = Some(<<"b">>)
    /\ ret = Some(<<"a">>)

\* every title and description selector raises or yields blank text
NoTextFound(found) == \A i \in 1..Len(found) : ~Qualifies(found, i)

\* no likes element carries a text with "like" in it
NoLikeFound(page) ==
    \/ ~page.likes_scroll
    \/ \A i \in 1..Len(page.likes) :
         page.likes[i] # None =>
           \A j \in 1..Len(page.likes[i][1]) :
             LET element == page.likes[i][1][j]
             IN element # None =>
                  ~Contains(LowerText(LikeText(element[1])), <<"l", "i", "k", "e">>)

\* no comment element carries a text of more than 10 characters
NoCommentFound(page) ==
    \/ ~page.comments_scroll
    \/ \A i \in 1..Len(page.comments) :
         page.comments[i] # None =>
           \A j \in 1..Len(page.comments[i][1]) :
             LET element == page.comments[i][1][j]
             IN element # None => Len(Strip(element[1].text)) <= 10

EveryStepFails(page) ==
    /\ page.load
    /\ NoTextFound(page.title)
    /\ NoTextFound(page.details)
    /\ NoLikeFound(page)
    /\ NoCommentFound(page)

SentinelVideoData ==
    [title |-> UnknownTitle, details |-> NoDescription, likes |-> 0,
     comments |-> PlaceholderComments]

\* C8: when the page loads and every extraction step fails, get_video_data
\* returns (it does not raise, and does not return None) the record of the
\* sentinels: 'Unknown Title', 'No description available', 0 likes and the two
\* placeholder comments.
C8_SentinelsWhenEveryStepFails ==
    (call = "get_video_data" /\ EveryStepFails(arg)) => ret = Some(SentinelVideoData)

\* a page on which selectors raise, yield blank text, and find elements that
\* carry no like count and no comment, and for which the sentinels came back
C8_Witness ==
    /\ call = "get_video_data"
    /\ EveryStepFails(arg)
    /\ arg.title[1] = None
    /\ arg.title[2] = Some(<<" ">>)
    /\ arg.likes_scroll
    /\ arg.likes[1] # None /\ arg.likes[1][1] # <<>>
    /\ arg.comments_scroll
    /\ arg.comments[1] # None /\ arg.comments[1][1] # <<>>
    /\ ret = Some(SentinelVideoData)

(***************************************************************************)
(* C10: the count the parsers are said to return.                          *)
(***************************************************************************)
\* the end of an integer part written with thousands commas: groups of a comma
\* and exactly three digits, from position e on
RECURSIVE ThousandsEnd(_, _)
ThousandsEnd(t, e) ==
    IF /\ e + 3 <= Len(t)
       /\ t[e] = ","
       /\ Run(t, e + 1, Digits) = 3
    THEN ThousandsEnd(t, e + 4)
    ELSE e

\* the first number token of a text that has a digit: integer part (thousands
\* commas allowed), a fraction where '.' and digits follow, a suffix letter
NumberToken(t) ==
    LET b  == CHOOSE i \in 1..Len(t) :
                t[i] \in Digits /\ \A j \in 1..(i - 1) : t[j] \notin Digits
        e1 == ThousandsEnd(t, b + Run(t, b, Digits))
        e2 == IF e1 <= Len(t) /\ t[e1] = "." /\ Run(t, e1 + 1, Digits) > 0
              THEN e1 + 1 + Run(t, e1 + 1, Digits) ELSE e1
        e3 == IF e2 <= Len(t) /\ t[e2] \in {"K", "k", "M", "m"}
              THEN e2 + 1 ELSE e2
    IN [int    |-> Without(SubSeq(t, b, e1 - 1), ","),
        frac   |-> IF e2 > e1 THEN SubSeq(t, e1 + 1, e2 - 1) ELSE <<>>,
        suffix |-> IF e3 > e2 THEN Lower(t[e2]) ELSE "",
        next   |-> e3]

HasDigit(t) == \E i \in 1..Len(t) : t[i] \in Digits

\* the claim speaks of a number token: one that ends the text or is followed by
\* a blank, that is an integer when it has no suffix, and (the model's counts
\* stay below 2^31) that is small enough
ClaimCovers(t) ==
    \/ ~HasDigit(t)
    \/ LET n == NumberToken(t)
       IN /\ n.next > Len(t) \/ t[n.next] \in Whitespace
          /\ n.suffix = "" => n.frac = <<>>
          /\ Len(n.int) <= (IF n.suffix = "k" THEN 6
                            ELSE IF n.suffix = "m" THEN 3 ELSE 9)

\* the number times 1000 (K/k), times 1000000 (M/m), or the integer itself;
\* 0 for a text with no digit
ClaimedCount(t) ==
    IF ~HasDigit(t) THEN 0
    ELSE LET n     == NumberToken(t)
             scale == IF n.suffix = "k" THEN 3 ELSE IF n.suffix = "m" THEN 6 ELSE 0
             kept  == SubSeq(n.frac, 1, IF Len(n.frac) < scale THEN Len(n.frac)
                                                               ELSE scale)
         IN DigitsValue(n.int) * Pow10(scale)
              + DigitsValue(kept) * Pow10(scale - Len(kept))

\* C10: parse_video_count and parse_likes_count return the value of the text's
\* first number token: the number times 1000 with a K/k suffix, times 1000000
\* with M/m, the integer itself (thousands commas removed) with none, and 0
\* for a text with no digit.
C10_ParsedCountIsTokenValue ==
    (call \in {"parse_video_count", "parse_likes_count"} /\ ClaimCovers(arg))
        => ret = Some(ClaimedCount(arg))

\* where the code agrees with C10: an integer part with no comma, or with one
\* comma and no fraction after it
C10_HoldsUpToOneComma ==
    (call \in {"parse_video_count", "parse_likes_count"} /\ ClaimCovers(arg)
       /\ HasDigit(arg)
       /\ LET b == CHOOSE i \in 1..Len(arg) :
                     arg[i] \in Digits /\ \A j \in 1..(i - 1) : arg[j] \notin Digits
              e == b + Run(arg, b, Digits)
          IN \/ ThousandsEnd(arg, e) = e
             \/ ThousandsEnd(arg, e) = e + 4 /\ NumberToken(arg).frac = <<>>)
        => ret = Some(ClaimedCount(arg))

(***************************************************************************)
(* youtube_scraper.py: persistence, on one scraper's db_connection.  The   *)
(* connector does not autocommit: a statement's rows stay uncommitted on   *)
(* the connection until a commit(), and no function rolls back.  Any       *)
(* statement may fail; a failed statement changes nothing.                 *)
(***************************************************************************)
\* persistence calls made on the connection
MaxCalls == 3

\* comments of one saved video
MaxSaved == 2

\* process_video's default channel name (:468)
UnknownChannel == "Unknown Channel"

\* the channel names, urls and video counts saved
SavedNames == {ChannelNames[1], UnknownChannel}

SavedUrls == {"", ChannelUrls[1]}

\* get_channel_video_count: 0 when the page fails (:102-104), else the count
VideoCounts == {0, DefaultVideoCount}

Ids(rows) == {rows[i].id : i \in 1..Len(rows)}

\* SELECT id FROM channels WHERE <field> = value (:382, :472)
Matching(rows, field, value) ==
    {rows[i].id : i \in {j \in 1..Len(rows) : rows[j][field] = value}}

\* cursor.fetchone(): None, or one of the rows selected (their order is the
\* server's)
FetchOne(ids) == IF ids = {} THEN {None} ELSE {Some(i) : i \in ids}

\* INSERT INTO channels (name, url, video_count) (:394-397); lastrowid (:398)
InsertChannel(t, channel_name, channel_url, video_count) ==
    [t EXCEPT !.channels =
        Append(@, [id |-> Len(@) + 1, name |-> channel_name,
                   url |-> channel_url, video_count |-> video_count])]

\* UPDATE channels SET video_count = %s WHERE id = %s (:388-391)
UpdateVideoCount(t, channel_id, video_count) ==
    LET rows == t.channels
    IN [t EXCEPT !.channels =
          [i \in 1..Len(rows) |->
             IF rows[i].id = channel_id
             THEN [rows[i] EXCEPT !.video_count = video_count]
             ELSE rows[i]]]

\* the connection after a commit() that failed: the statements are still
\* uncommitted on it, or the server has rolled them back
CommitFailed(t, db) == {t, db}

\* SaveChannelData without the lookup of :382-385: always the INSERT
SaveChannelDataInserts(conn, db, channel_name, channel_url, video_count) ==
    LET written == InsertChannel(conn, channel_name, channel_url, video_count)
    IN {[connection |-> conn, database |-> db, value |-> None]}
         \cup {[connection |-> c, database |-> db, value |-> None] :
                 c \in CommitFailed(written, db)}
         \cup {[connection |-> written, database |-> written,
                value |-> Some(Len(conn.channels) + 1)]}

\* save_channel_data with a connection (:375-412): the outcomes, each the
\* connection and the database after the call and the value returned.  None
\* when the SELECT, the UPDATE or INSERT, or the commit failed (:410-412)
SaveChannelData(conn, db, channel_name, channel_url, video_count) ==
    LET found == FetchOne(Matching(conn.channels, "url", channel_url))
        Written(result) ==
            IF result # None
            THEN UpdateVideoCount(conn, result[1], video_count)
            ELSE InsertChannel(conn, channel_name, channel_url, video_count)
        IdOf(result) ==
            IF result # None THEN result[1] ELSE Len(conn.channels) + 1
    IN {[connection |-> conn, database |-> db, value |-> None]}
         \cup {[connection |-> c, database |-> db, value |-> None] :
                 c \in UNION {CommitFailed(Written(r), db) : r \in found}}
         \cup {[connection |-> Written(r), database |-> Written(r),
                value |-> Some(IdOf(r))] : r \in found}

\* FOREIGN KEY (channel_id) REFERENCES channels(id) (database.py:43): NULL, or
\* the id of a channel row
ForeignKeyHolds(t, channel_id) ==
    channel_id = None \/ channel_id[1] \in Ids(t.channels)

\* INSERT INTO videos (:421-424) by the call numbered save; lastrowid (:425)
InsertVideo(t, channel_id, save) ==
    [t EXCEPT !.videos =
        Append(@, [id |-> Len(@) + 1, channel_id |-> channel_id, save |-> save])]

\* the first k INSERT INTO comments of the loop (:428-432)
RECURSIVE WithComments(_, _, _, _)
WithComments(t, video_id, k, save) ==
    IF k = 0 THEN t
    ELSE LET before == WithComments(t, video_id, k - 1, save)
         IN [before EXCEPT !.comments =
               Append(@, [id |-> Len(@) + 1, video_id |-> video_id,
                          save |-> save])]

\* save_video_data with a connection (:414-446) for a video of n comments: the
\* outcomes.  False when the video INSERT failed (always when the foreign key
\* does not hold), when a comment INSERT failed after the ones before it, or
\* when the commit failed (:444-446); nothing is undone
SaveVideoData(conn, db, channel_id, n, save) ==
    LET video_id == Len(conn.videos) + 1
        video    == InsertVideo(conn, channel_id, save)
        all      == WithComments(video, video_id, n, save)
    IN {[connection |-> conn, database |-> db, value |-> FALSE]}
         \cup (IF ForeignKeyHolds(conn, channel_id)
               THEN {[connection |-> WithComments(video, video_id, k, save),
                      database |-> db, value |-> FALSE] : k \in 0..(n - 1)}
                      \cup {[connection |-> c, database |-> db, value |-> FALSE] :
                              c \in CommitFailed(all, db)}
                      \cup {[connection |-> all, database |-> all, value |-> TRUE]}
               ELSE {})

\* process_channel with a connection (:448-458): channel_id is what
\* save_channel_data returns
SaveChannel(conn, db, channel_name, channel_url) ==
    UNION {SaveChannelData(conn, db, channel_name, channel_url, video_count) :
             video_count \in VideoCounts}

\* process_video with a connection and extracted data (:464-486): the SELECT by
\* name raises (:472), or gives the channel id, or gives none and
\* save_channel_data (:480) returns the id or None; then save_video_data, whose
\* result is dropped (:484)
SaveVideo(conn, db, n, save) ==
    LET found == FetchOne(Matching(conn.channels, "name", UnknownChannel))
        Channel(result) ==
            IF result # None
            THEN {[connection |-> conn, database |-> db, value |-> result]}
            ELSE SaveChannelData(conn, db, UnknownChannel, "", 0)
        Saved(c) ==
            {[connection |-> v.connection, database |-> v.database,
              raised |-> FALSE, saved |-> v.value] :
               v \in SaveVideoData(c.connection, c.database, c.value, n, save)}
    IN {[connection |-> conn, database |-> db, raised |-> TRUE, saved |-> TRUE]}
         \cup UNION {UNION {Saved(c) : c \in Channel(r)} : r \in found}

\* a persistence call returns: the connection and the database after it
Returns(name, a, o, value, failed) ==
    /\ calls < MaxCalls
    /\ calls' = calls + 1
    /\ connection' = o.connection
    /\ database' = o.database
    /\ call' = name
    /\ arg' = a
    /\ ret' = value
    /\ failed_saves' = IF failed THEN failed_saves \cup {calls + 1} ELSE failed_saves
    /\ UNCHANGED appVars

CallSaveChannelData ==
    \E channel_name \in SavedNames, channel_url \in SavedUrls,
       video_count \in VideoCounts :
        \E o \in SaveChannelData(connection, database, channel_name, channel_url,
                                 video_count) :
            Returns("save_channel_data",
                    [channel_name |-> channel_name, channel_url |-> channel_url,
                     video_count |-> video_count], o, o.value, FALSE)

\* save_video_data called with the id of a channel row
CallSaveVideoData ==
    \E id \in Ids(connection.channels), n \in 1..MaxSaved :
        \E o \in SaveVideoData(connection, database, Some(id), n, calls + 1) :
            Returns("save_video_data", [channel_id |-> Some(id), comments |-> n],
                    o, Some(o.value), ~o.value)

CallProcessChannel ==
    \E channel_name \in SavedNames, channel_url \in SavedUrls :
        \E o \in SaveChannel(connection, database, channel_name, channel_url) :
            Returns("process_channel",
                    [channel_name |-> channel_name, channel_url |-> channel_url],
                    o, o.value, FALSE)

CallProcessVideo ==
    \E n \in 1..MaxSaved :
        \E o \in SaveVideo(connection, database, n, calls + 1) :
            Returns("process_video", [comments |-> n], o,
                    Some(IF o.raised THEN "raised" ELSE "video_data"),
                    ~o.raised /\ ~o.saved)

NextDb ==
    \/ CallSaveChannelData
    \/ CallSaveVideoData
    \/ CallProcessChannel
    \/ CallProcessVideo

SpecDb == Init /\ [][NextDb]_vars

(***************************************************************************)
(* C11, C12, C15: the rows the persistence calls leave.                    *)
(***************************************************************************)
\* C11: every persisted video row has a channel_id that references an existing
\* channel row, and every persisted comment row a video_id that references an
\* existing video row.
C11_PersistedRowsReference ==
    /\ \A i \in 1..Len(database.videos) :
         /\ database.videos[i].channel_id # None
         /\ database.videos[i].channel_id[1] \in Ids(database.channels)
    /\ \A i \in 1..Len(database.comments) :
         database.comments[i].video_id \in Ids(database.videos)

\* no two rows of the table have the same url
UniqueUrls(rows) ==
    \A i, j \in 1..Len(rows) : rows[i].url = rows[j].url => i = j

\* rows after are rows before, but for the video_count of the rows of the url
OnlyVideoCountOf(url, before, after) ==
    /\ Len(after) = Len(before)
    /\ \A i \in 1..Len(before) :
         /\ after[i].id = before[i].id
         /\ after[i].name = before[i].name
         /\ after[i].url = before[i].url
         /\ before[i].url # url => after[i].video_count = before[i].video_count

\* C12: the channels table holds at most one row per URL, as the connection
\* sees it and as committed; a save_channel_data call for a URL that has a row
\* adds no row and changes nothing but that row's video_count (its name stays),
\* and a call that saved returns that row's id and has set its video_count.
C12_OneChannelRowPerUrl ==
    /\ [](UniqueUrls(connection.channels) /\ UniqueUrls(database.channels))
    /\ [][(call' = "save_channel_data" /\ calls' = calls + 1
             /\ Matching(connection.channels, "url", arg'.channel_url) # {})
          => LET url    == arg'.channel_url
                 before == connection.channels
                 after  == connection'.channels
             IN /\ \/ OnlyVideoCountOf(url, before, after)
                   \/ ret' = None /\ connection' = database
                /\ ret' # None
                     => /\ ret' \in FetchOne(Matching(before, "url", url))
                        /\ OnlyVideoCountOf(url, before, after)
                        /\ database' = connection'
                        /\ \A i \in 1..Len(after) :
                             after[i].id = ret'[1]
                               => after[i].video_count = arg'.video_count]_vars

\* a save under another name of a URL that has a row returned that row's id:
\* the one row keeps its name and has the video_count of the call
C12_Witness ==
    /\ call = "save_channel_data"
    /\ ret # None
    /\ Len(database.channels) = 1
    /\ database.channels[1].id = ret[1]
    /\ database.channels[1].url = arg.channel_url
    /\ database.channels[1].name # arg.channel_name
    /\ database.channels[1].video_count = arg.video_count
    /\ arg.video_count = DefaultVideoCount

\* C15: no video row and no comment row of a save_video_data call that returned
\* False is ever persisted.
C15_FailedSaveLeavesNoRow ==
    /\ \A i \in 1..Len(database.videos) :
         database.videos[i].save \notin failed_saves
    /\ \A i \in 1..Len(database.comments) :
         database.comments[i].save \notin failed_saves

====
